---- MODULE Spec2Model ----
(***************************************************************************)
(* Label iQ: the response-validation gateway in front of the Denodo AI SDK. *)
(* The model follows server/bedrock.ts (chatWithDenodoAI and the policy     *)
(* table), server/routes.ts (POST /api/chat) and shared/schema.ts           *)
(* (chatRequestSchema).                                                     *)
(*                                                                          *)
(* Representation of JavaScript values:                                     *)
(*   - an optional string is a record [def, val]; def = FALSE is undefined; *)
(*   - a text is a sequence of atoms: the characters of engine-supplied     *)
(*     text one by one, a string literal of the source as one atom;         *)
(*   - a view identifier is the sequence of its dot-separated segments,     *)
(*     so "jl_verboomen.interactions" is <<"jl_verboomen","interactions">>  *)
(*     and a string without dots is a one-element sequence.                 *)
(***************************************************************************)
EXTENDS Integers, Sequences, FiniteSets

\* ------------------------------------------------------------------ bounds
MaxUsed == 2      \* longest tables_used list the engine reports
NumCalls == 2     \* chat requests in flight at the same time
MaxChat == 4      \* chat messages created in the page, cleared ones included
MaxHistory == 3   \* entries added to the query history
MaxEvents == 2    \* 'end' / 'error' events delivered to one call

\* ------------------------------------------------------- JavaScript values
Undefined == [def |-> FALSE, val |-> ""]
Str(s) == [def |-> TRUE, val |-> s]
\* truthiness of an optional string: undefined and "" are falsy
Truthy(v) == v.def /\ v.val # ""

NoText == [def |-> FALSE, val |-> <<>>]
Txt(t) == [def |-> TRUE, val |-> t]
TruthyText(v) == v.def /\ v.val # <<>>

\* ------------------------------------------------------------ text helpers
UpperCaseLetters ==
  <<"A","B","C","D","E","F","G","H","I","J","K","L","M",
    "N","O","P","Q","R","S","T","U","V","W","X","Y","Z">>
LowerCaseLetters ==
  <<"a","b","c","d","e","f","g","h","i","j","k","l","m",
    "n","o","p","q","r","s","t","u","v","w","x","y","z">>

LowerChar(c) ==
  IF \E i \in 1..26 : UpperCaseLetters[i] = c
    THEN LowerCaseLetters[CHOOSE i \in 1..26 : UpperCaseLetters[i] = c]
    ELSE c

\* String.prototype.toLowerCase
toLowerCase(t) == [i \in 1..Len(t) |-> LowerChar(t[i])]

\* String.prototype.includes
includes(t, p) ==
  \E i \in 1..(Len(t) + 1) :
    /\ i + Len(p) - 1 <= Len(t)
    /\ SubSeq(t, i, i + Len(p) - 1) = p

\* String.prototype.startsWith
startsWith(t, p) == Len(p) <= Len(t) /\ SubSeq(t, 1, Len(p)) = p

\* Array.prototype.includes on a list
listIncludes(list, x) == \E i \in 1..Len(list) : list[i] = x

Min(a, b) == IF a <= b THEN a ELSE b

\* ---------------------------------------------------------- policy registry
ROLE_VIEW_PERMISSIONS ==
  [ patient |->
      << "drug_purpose_and_identity", "clinical_pharmacology",
         "dosing_and_administration", "interactions", "overdose_emergency",
         "product_and_label_index", "specific_population", "storage_and_handling" >>,
    physician |->
      << "drug_purpose_and_identity", "clinical_pharmacology",
         "dosing_and_administration", "interactions", "master_safety_risk",
         "overdose_emergency", "product_and_label_index", "specific_population",
         "storage_and_handling" >>,
    judge |->
      << "drug_purpose_and_identity", "clinical_pharmacology",
         "dosing_and_administration", "interactions", "master_safety_risk",
         "overdose_emergency", "product_and_label_index", "specific_population",
         "storage_and_handling" >> ]

\* the lookup without its default: no views for a role that is not a key
getAllowedViewsForRoleNoDefault(userRole) ==
  IF userRole \in DOMAIN ROLE_VIEW_PERMISSIONS
    THEN ROLE_VIEW_PERMISSIONS[userRole]
    ELSE <<>>

\* ROLE_VIEW_PERMISSIONS[userRole] || ROLE_VIEW_PERMISSIONS.judge
getAllowedViewsForRole(userRole) ==
  IF userRole \in DOMAIN ROLE_VIEW_PERMISSIONS
    THEN ROLE_VIEW_PERMISSIONS[userRole]
    ELSE ROLE_VIEW_PERMISSIONS.judge

\* ------------------------------------------------------ view identifiers
\* a string without dots, as an identifier
Name(s) == <<s>>

\* table.includes('.')
hasDot(table) == Len(table) > 1

\* table.split('.').pop()
lastSegment(table) == table[Len(table)]

\* the comparison made on the identifier as reported, prefix and all
tableNameNoStrip(table) == table

\* the wrong end of the split taken: the namespace instead of the view
tableNameFirstSegment(table) == Name(table[1])

\* table.includes('.') ? table.split('.').pop() || table : table
tableName(table) ==
  IF hasDot(table)
    THEN (IF lastSegment(table) # "" THEN Name(lastSegment(table)) ELSE table)
    ELSE table

\* number of characters of the string an identifier stands for
RECURSIVE identLength(_)
identLength(table) ==
  IF Len(table) = 1 THEN Len(table[1])
  ELSE Len(table[1]) + 1 + identLength(Tail(table))

\* -------------------------------------------------------------- JSON text
\* The text of a tables_used string, as JSON tokens.
Tok(k) == [k |-> k, id |-> <<>>]
StrTok(id) == [k |-> "str", id |-> id]      \* a quoted string
WordTok(id) == [k |-> "word", id |-> id]    \* bare characters, not JSON

\* Values of tables_used in the response body and after parsing.
JsUndefined == [t |-> "undefined", items |-> <<>>, id |-> <<>>, toks |-> <<>>]
JsNull == [t |-> "null", items |-> <<>>, id |-> <<>>, toks |-> <<>>]
JsArray(list) == [t |-> "array", items |-> list, id |-> <<>>, toks |-> <<>>]
JsString(id) == [t |-> "string", items |-> <<>>, id |-> id, toks |-> <<>>]
\* a string given by the JSON tokens of its characters (<<>> is the string "")
JsText(toks) == [t |-> "text", items |-> <<>>, id |-> <<>>, toks |-> toks]

isArrayText(toks) ==
  /\ Len(toks) >= 2
  /\ toks[1].k = "[" /\ toks[Len(toks)].k = "]"
  /\ \/ Len(toks) = 2
     \/ /\ Len(toks) % 2 = 1
        /\ \A i \in 2..(Len(toks) - 1) :
             toks[i].k = (IF i % 2 = 0 THEN "str" ELSE ",")

\* JSON.parse on the texts the model draws: null, one string, a flat array
\* of strings; everything else is a SyntaxError (ok = FALSE).
JSONParse(toks) ==
  IF Len(toks) = 1 /\ toks[1].k = "null" THEN [ok |-> TRUE, v |-> JsNull]
  ELSE IF Len(toks) = 1 /\ toks[1].k = "str" THEN [ok |-> TRUE, v |-> JsString(toks[1].id)]
  ELSE IF isArrayText(toks)
    THEN [ok |-> TRUE,
          v |-> JsArray([i \in 1..((Len(toks) - 1) \div 2) |-> toks[2 * i].id])]
  ELSE [ok |-> FALSE, v |-> JsUndefined]

\* JavaScript truthiness of data.tables_used
truthyValue(v) ==
  CASE v.t = "undefined" -> FALSE
    [] v.t = "null" -> FALSE
    [] v.t = "text" -> v.toks # <<>>
    [] OTHER -> TRUE

\* tablesUsed taken from a native array only
parseTablesUsedArrayOnly(tables_used) ==
  IF tables_used.t = "array" THEN tables_used ELSE JsArray(<<>>)

\* JSON.parse without the catch block's empty list: a text that does not
\* parse is kept as it is
parseTablesUsedKeepText(tables_used) ==
  IF ~truthyValue(tables_used) THEN JsArray(<<>>)
  ELSE IF tables_used.t = "text" /\ JSONParse(tables_used.toks).ok
    THEN JSONParse(tables_used.toks).v
  ELSE tables_used

\* lines 240-249: tablesUsed after the optional JSON.parse
parseTablesUsed(tables_used) ==
  IF ~truthyValue(tables_used) THEN JsArray(<<>>)
  ELSE IF tables_used.t = "text"
    THEN (IF JSONParse(tables_used.toks).ok
            THEN JSONParse(tables_used.toks).v
            ELSE JsArray(<<>>))
  ELSE tables_used

\* tablesUsed.length: a number, or a TypeError on null
lengthThrows(tablesUsed) == tablesUsed.t = "null"
lengthOf(tablesUsed) ==
  CASE tablesUsed.t = "array" -> Len(tablesUsed.items)
    [] tablesUsed.t = "string" -> identLength(tablesUsed.id)
    [] OTHER -> 0

\* -------------------------------------------------------- engine response
\* The body of the engine's HTTP response: text that is not JSON
\* ("malformed"), the JSON value null, or a JSON object with the fields the
\* gateway reads.
Body(kind, answer, tables_used, sql_query) ==
  [kind |-> kind, answer |-> answer, tables_used |-> tables_used, sql_query |-> sql_query]
MalformedBody == Body("malformed", NoText, JsUndefined, Undefined)
NullBody == Body("null", NoText, JsUndefined, Undefined)

\* ----------------------------------------------------- fixed source texts
failClosedMessage ==
  << "I'm sorry, I couldn't find an answer to your question in the available drug information. ",
     "Please try asking in a different way or select a drug from the list to get started." >>
patientFriendlyMessage ==
  << "I'm sorry, I couldn't find information about that in our drug database. ",
     "Could you try rephrasing your question or ask about a different topic related to this medication?" >>
\* (the warning sign that follows the two line breaks in the source is left out)
disclaimerText ==
  << "\n\nIMPORTANT: This response includes information from technical safety assessments. Please discuss this information with your healthcare provider for complete guidance tailored to your situation." >>
noResponseGenerated == << "No response generated" >>
parseFailedMessage == << "Failed to parse response from Denodo AI SDK" >>
requestFailedMessage == << "Failed to generate response from Denodo AI SDK" >>
credentialsMessage == << "Denodo credentials not configured" >>

sorry == <<"s","o","r","r","y">>
cantHelp == <<"c","a","n","'","t"," ","h","e","l","p">>
cannotHelp == <<"c","a","n","n","o","t"," ","h","e","l","p">>
couldntFind == <<"c","o","u","l","d","n","'","t"," ","f","i","n","d">>

\* ------------------------------------------------- outcomes of one call
\* What resolve() is given (ChatResponse) and what reject() is given (Error).
ChatResponse(message, tablesUsed, sqlQuery, confidence) ==
  [message |-> message, tablesUsed |-> tablesUsed, sqlQuery |-> sqlQuery,
   confidence |-> confidence]
NoResponse == ChatResponse(<<>>, JsUndefined, Undefined, 0)

\* new Error(...): the literal parts of the message, and the status code and
\* response data interpolated after them (statusCode 0 when there are none)
Error(message, statusCode, responseData) ==
  [message |-> message, statusCode |-> statusCode, responseData |-> responseData]
NoError == Error(<<>>, 0, MalformedBody)

Resolve(branch, value) == [settle |-> "resolve", branch |-> branch, value |-> value, error |-> NoError]
Reject(branch, error) == [settle |-> "reject", branch |-> branch, value |-> NoResponse, error |-> error]

\* --------------------------------------------------------- the validator
\* lines 257-262
isNoAnswerResponse(answer) ==
  /\ TruthyText(answer)
  /\ \/ includes(toLowerCase(answer.val), sorry)
     \/ includes(toLowerCase(answer.val), cantHelp)
     \/ includes(toLowerCase(answer.val), cannotHelp)
     \/ includes(toLowerCase(answer.val), couldntFind)

\* lines 301-304
unauthorizedViews(tablesUsed, allowedViews) ==
  LET restricted(table) == ~listIncludes(allowedViews, tableName(table))
  IN  SelectSeq(tablesUsed, restricted)

\* the allowedViews argument: the role's view names as identifiers
viewList(views) == [i \in 1..Len(views) |-> Name(views[i])]

\* data.answer || "No response generated"
answerOrDefault(answer) == IF TruthyText(answer) THEN answer.val ELSE noResponseGenerated

\* Math.min(95, 70 + (tablesUsed.length * 3))
confidenceOf(tablesUsed) == Min(95, 70 + lengthOf(tablesUsed) * 3)

\* lines 332-345: the final resolve
allowResponse(data, tablesUsed) ==
  IF lengthThrows(tablesUsed)
    THEN Reject("parseError", Error(parseFailedMessage, 0, MalformedBody))
    ELSE Resolve("allow",
           ChatResponse(answerOrDefault(data.answer), tablesUsed, data.sql_query,
                        confidenceOf(tablesUsed)))

\* the fail-closed test with the negation of isNoAnswerResponse lost
failClosedNegationLost(tablesUsed, answer) ==
  lengthOf(tablesUsed) = 0 /\ isNoAnswerResponse(answer)

\* line 264: tablesUsed.length === 0 && !isNoAnswerResponse
failClosed(tablesUsed, answer) ==
  lengthOf(tablesUsed) = 0 /\ ~isNoAnswerResponse(answer)

\* lines 268-273
denyReject == Reject("deny", Error(failClosedMessage, 0, MalformedBody))

\* the "no answer" branch taken whatever the used list holds
noAnswerAnyList(tablesUsed, answer) == isNoAnswerResponse(answer)

\* line 277: tablesUsed.length === 0 && isNoAnswerResponse
noAnswer(tablesUsed, answer) ==
  lengthOf(tablesUsed) = 0 /\ isNoAnswerResponse(answer)

\* the engine's own wording passed on for a "no answer"
noAnswerRaw(data) ==
  Resolve("noAnswer",
    ChatResponse(answerOrDefault(data.answer), JsArray(<<>>), data.sql_query, 50))

\* the friendly "no answer" resolved without the SQL of the engine
noAnswerNoSql(data) ==
  Resolve("noAnswer", ChatResponse(patientFriendlyMessage, JsArray(<<>>), Undefined, 50))

\* lines 281-296
noAnswerResolve(data) ==
  Resolve("noAnswer",
    ChatResponse(patientFriendlyMessage, JsArray(<<>>), data.sql_query, 50))

\* the answer resolved without the advisory appended
disclaimNoSuffix(data, tablesUsed) ==
  Resolve("disclaim",
    ChatResponse(answerOrDefault(data.answer), tablesUsed, data.sql_query,
                 confidenceOf(tablesUsed)))

\* lines 312-325
disclaimResolve(data, tablesUsed) ==
  Resolve("disclaim",
    ChatResponse(answerOrDefault(data.answer) \o disclaimerText, tablesUsed,
                 data.sql_query, confidenceOf(tablesUsed)))

\* lines 251-330: the RBAC block, entered with a non-empty allowedViews
rbacBlock(data, tablesUsed, allowedViews) ==
  IF lengthThrows(tablesUsed)
    THEN \* TypeError at tablesUsed.length, caught at line 346
         Reject("parseError", Error(parseFailedMessage, 0, MalformedBody))
  ELSE IF failClosed(tablesUsed, data.answer) THEN denyReject
  ELSE IF noAnswer(tablesUsed, data.answer) THEN noAnswerResolve(data)
  ELSE IF tablesUsed.t # "array"
    THEN \* TypeError: tablesUsed.filter is not a function, caught at line 346
         Reject("parseError", Error(parseFailedMessage, 0, MalformedBody))
  ELSE IF Len(unauthorizedViews(tablesUsed.items, allowedViews)) > 0
    THEN disclaimResolve(data, tablesUsed)
  ELSE allowResponse(data, tablesUsed)

\* a 2xx response resolved without the RBAC block
validateResponseNoRbac(data, allowedViews) ==
  IF data.kind \in {"malformed", "null"}
    THEN Reject("parseError", Error(parseFailedMessage, 0, MalformedBody))
    ELSE allowResponse(data, parseTablesUsed(data.tables_used))

\* lines 233-351: a 2xx response
validateResponse(data, allowedViews) ==
  IF data.kind = "malformed"
    THEN \* SyntaxError from JSON.parse(responseData)
         Reject("parseError", Error(parseFailedMessage, 0, MalformedBody))
  ELSE IF data.kind = "null"
    THEN \* TypeError reading data.tables_used of null
         Reject("parseError", Error(parseFailedMessage, 0, MalformedBody))
  ELSE IF Len(allowedViews) > 0
    THEN rbacBlock(data, parseTablesUsed(data.tables_used), allowedViews)
  ELSE allowResponse(data, parseTablesUsed(data.tables_used))

\* the status test without its upper bound
is2xxNoUpperBound(statusCode) == statusCode >= 200

\* line 231: res.statusCode && res.statusCode >= 200 && res.statusCode < 300
is2xx(statusCode) == statusCode >= 200 /\ statusCode < 300

\* lines 225-358: the body of the 'end' handler below its settled guard
onEnd(res, allowedViews) ==
  IF is2xx(res.statusCode)
    THEN validateResponse(res.body, allowedViews)
    ELSE Reject("status",
           Error(<< "Denodo AI SDK error (", "): " >>, res.statusCode, res.body))

\* lines 361-366 and 369-374: the two transport rejections
onError == Reject("requestError", Error(requestFailedMessage, 0, MalformedBody))
onThrow == Reject("thrown", Error(requestFailedMessage, 0, MalformedBody))

\* ------------------------------------------------------ outbound request
\* credentials taken from a variable of the environment named after the role
getDenodoCredentialsPerRole(e, userRole) ==
  [username |-> IF e.username THEN << "DENODO_USERNAME", userRole >> ELSE <<>>,
   password |-> IF e.password THEN << "DENODO_PASSWORD", userRole >> ELSE <<>>]

\* lines 132-140: the values of DENODO_USERNAME and DENODO_PASSWORD, or ''
getDenodoCredentialsByRole(e, userRole) ==
  [username |-> IF e.username THEN << "DENODO_USERNAME" >> ELSE <<>>,
   password |-> IF e.password THEN << "DENODO_PASSWORD" >> ELSE <<>>]

\* lines 51-76 for the message lists the requests here carry (at most one
\* message): the content of the message, given by its position
formatQuestionWithContext(messages) == [content |-> Len(messages)]

\* lines 171-172: Basic, then base64 of username:password
authHeader(credentials) ==
  [scheme |-> "Basic",
   base64 |-> credentials.username \o << ":" >> \o credentials.password]

\* lines 180-193: the query parameters
requestParams(question, vdpDatabaseNames, allowedViews) ==
  [question |-> question,
   verbose |-> "true",
   vdp_database_names |-> vdpDatabaseNames,
   tables |-> IF Len(allowedViews) > 0
                THEN JsText(<< Tok("[") >>
                       \o [i \in 1..(2 * Len(allowedViews) - 1) |->
                            IF i % 2 = 1 THEN StrTok(allowedViews[(i + 1) \div 2])
                            ELSE Tok(",")]
                       \o << Tok("]") >>)
                ELSE JsUndefined]

\* lines 201-214: what goes to the engine
requestOptions(credentials, params) ==
  [method |-> "GET", path |-> "/answerQuestion", params |-> params,
   Authorization |-> authHeader(credentials), Accept |-> "application/json"]

NoRequest ==
  requestOptions([username |-> <<>>, password |-> <<>>],
                 requestParams([content |-> 0], "", <<>>))

\* routes.ts lines 207-227 and lines 162-218: the request made for a role
\* and a message list, when one is made
requestFor(e, userRole, messages) ==
  IF ~(e.username /\ e.password) \/ e.url = "invalid" THEN NoRequest
  ELSE requestOptions(getDenodoCredentialsByRole(e, userRole),
         requestParams(formatQuestionWithContext(messages), "jl_verboomen",
                       viewList(getAllowedViewsForRole(userRole))))

\* ----------------------------------------------------------- console log
\* One console.log / console.warn / console.error call: the source line it
\* is at, and what it prints besides its literal text: a role, a number, a
\* list of views, a tables_used value, a text.
LogEntry(at, role, count, views, value, text) ==
  [at |-> at, role |-> role, count |-> count, views |-> views, value |-> value,
   text |-> text]
LogLine(at) == LogEntry(at, "", 0, <<>>, JsUndefined, Undefined)
LogViews(at, views) == LogEntry(at, "", Len(views), views, JsUndefined, Undefined)
LogValue(at, value) == LogEntry(at, "", 0, <<>>, value, Undefined)
LogText(at, text) == LogEntry(at, "", 0, <<>>, JsUndefined, text)

\* routes.ts lines 211-215
accessControlLog(role, views) ==
  << LogEntry("routes.ts:211", role, 0, <<>>, JsUndefined, Undefined),
     LogEntry("routes.ts:212", "", Len(views), <<>>, JsUndefined, Undefined) >>
    \o (IF role = "patient" THEN << LogLine("routes.ts:214") >> ELSE <<>>)

\* lines 190-198 and 369-374: the logs of the executor up to its return
queryLog(e, views) ==
  IF ~(e.username /\ e.password) THEN <<>>
  ELSE (IF Len(views) > 0 THEN << LogViews("bedrock.ts:192", views) >> ELSE <<>>)
         \o (IF e.url = "invalid"
               THEN << LogLine("bedrock.ts:372") >>
               ELSE << LogLine("bedrock.ts:198") >>)

\* data.tables_used || 'Not specified'
tablesUsedOrNotSpecified(tables_used) ==
  IF truthyValue(tables_used) THEN tables_used ELSE JsString(Name("Not specified"))

\* lines 234-237
responseLog(data) ==
  << LogLine("bedrock.ts:234"),
     LogValue("bedrock.ts:235", tablesUsedOrNotSpecified(data.tables_used)),
     LogText("bedrock.ts:236", data.sql_query),
     LogText("bedrock.ts:237", data.answer) >>

\* the warnings of a disclaimed answer with the used list in the first
disclaimLogAllUsed(unauthorized, allowedViews, tablesUsed) ==
  << LogViews("bedrock.ts:307", tablesUsed),
     LogViews("bedrock.ts:308", allowedViews),
     LogViews("bedrock.ts:309", tablesUsed) >>

\* lines 307-309
disclaimLog(unauthorized, allowedViews, tablesUsed) ==
  << LogViews("bedrock.ts:307", unauthorized),
     LogViews("bedrock.ts:308", allowedViews),
     LogViews("bedrock.ts:309", tablesUsed) >>

\* a denial that logs nothing
denyLogNone == <<>>

\* lines 265-266
denyLog == << LogLine("bedrock.ts:265"), LogLine("bedrock.ts:266") >>

\* the logs of the branch the RBAC block and the final resolve take
decisionLog(o, tablesUsed, allowedViews) ==
  CASE o.branch = "deny" -> denyLog
    [] o.branch = "noAnswer" -> << LogLine("bedrock.ts:278") >>
    [] o.branch = "disclaim" ->
         disclaimLog(unauthorizedViews(tablesUsed.items, allowedViews),
                     allowedViews, tablesUsed.items)
    [] o.branch = "allow" ->
         (IF Len(allowedViews) > 0
            THEN << LogViews("bedrock.ts:329", tablesUsed.items) >> ELSE <<>>)
    [] OTHER -> << LogLine("bedrock.ts:349") >>

\* lines 225-358: what the 'end' handler logs below its settled guard
endLog(res, allowedViews) ==
  IF ~is2xx(res.statusCode)
    THEN << LogEntry("bedrock.ts:355", "", res.statusCode, <<>>, JsUndefined, Undefined) >>
  ELSE IF res.body.kind = "malformed" THEN << LogLine("bedrock.ts:349") >>
  ELSE IF res.body.kind = "null"
    THEN << LogLine("bedrock.ts:234"), LogLine("bedrock.ts:349") >>
  ELSE responseLog(res.body)
         \o decisionLog(onEnd(res, allowedViews),
                        parseTablesUsed(res.body.tables_used), allowedViews)

\* line 364
errorLog == << LogLine("bedrock.ts:364") >>

\* routes.ts line 231
catchLog(o) == IF o.settle = "reject" THEN << LogLine("routes.ts:231") >> ELSE <<>>

\* ------------------------------------------------------------ environment
\* process.env: DENODO_AI_SDK_URL is unset, a URL, or text new URL() rejects
Environments ==
  [url : {"unset", "valid", "invalid"}, username : BOOLEAN, password : BOOLEAN]

\* the configuration test without the endpoint
isDenodoAIConfiguredNoEndpoint(e) == e.username /\ e.password

\* lines 381-387
isDenodoAIConfigured(e) == e.username /\ e.password /\ e.url # "unset"

\* ------------------------------------------------------- the inputs drawn
RoleStrings == {"patient", "physician", "judge", "admin"}

\* userRole as the client puts it in the request body
SentRoles == {Undefined, Str("")} \cup {Str(r) : r \in RoleStrings}

\* messages of a request body, by the role of each message; "system" is a
\* role chatMessageSchema rejects
MessageLists == { <<>>, <<"assistant">>, <<"user">>, <<"system">> }

RequestBodies == [messages : MessageLists, userRole : SentRoles]

Idents ==
  { Name("interactions"), Name("master_safety_risk"), Name("Master_Safety_Risk"),
    <<"jl_verboomen", "interactions">>, <<"jl_verboomen", "master_safety_risk">>,
    <<"master_safety_risk", "">> }

RECURSIVE ListsUpTo(_, _)
ListsUpTo(S, n) ==
  IF n = 0 THEN { <<>> }
  ELSE ListsUpTo(S, n - 1) \cup
       { Append(l, x) : l \in { m \in ListsUpTo(S, n - 1) : Len(m) = n - 1 }, x \in S }

UsedLists == ListsUpTo(Idents, MaxUsed)

\* JSON.stringify of a list of strings, as tokens
RECURSIVE stringifyItems(_)
stringifyItems(list) ==
  IF list = <<>> THEN <<>>
  ELSE IF Len(list) = 1 THEN << StrTok(list[1]) >>
  ELSE << StrTok(list[1]), Tok(",") >> \o stringifyItems(Tail(list))

stringify(list) == << Tok("[") >> \o stringifyItems(list) \o << Tok("]") >>

OddTexts ==
  { <<>>,
    << Tok("null") >>,
    << StrTok(<<"">>) >>,
    << StrTok(Name("interactions")) >>,
    << WordTok(Name("interactions")) >>,
    << Tok("["), StrTok(Name("interactions")) >>,
    << Tok("["), StrTok(Name("interactions")), Tok(","), Tok("]") >> }

TablesUsedValues ==
  {JsUndefined, JsNull}
    \cup { JsArray(l) : l \in UsedLists }
    \cup { JsText(stringify(l)) : l \in UsedLists }
    \cup { JsText(t) : t \in OddTexts }

Answers ==
  { NoText,
    Txt(<<>>),
    Txt(<<"V","3"," ","i","s">>),
    Txt(<<"s","o","r","r","o","w">>),
    Txt(<<"S","o","r","r","y",".">>),
    Txt(<<"I"," ","C","A","N","'","T"," ","H","E","L","P">>),
    Txt(<<"C","a","n","n","o","t"," ","h","e","l","p">>),
    Txt(<<"I"," ","c","o","u","l","d","n","'","t"," ","f","i","n","d">>) }

SqlQueries == { Undefined, Str("SELECT 1") }

ObjectBodies ==
  { Body("object", a, t, q) : a \in Answers, t \in TablesUsedValues, q \in SqlQueries }

\* bodies sent with a status outside 2xx: the gateway does not read them
ErrorBodies ==
  { MalformedBody,
    Body("object", Txt(<<"V","3"," ","i","s">>), JsArray(<<Name("interactions")>>), Undefined) }

EngineResponses ==
  [statusCode : {200}, body : ObjectBodies \cup {MalformedBody, NullBody}]
    \cup [statusCode : {299}, body : {NullBody} \cup ErrorBodies]
    \cup [statusCode : {199, 300, 404, 500}, body : ErrorBodies]

\* ------------------------------------------------------------------ state
VARIABLES
  env,           \* process.env, fixed for the process lifetime
  pc,            \* "idle", "awaiting" (the call is in flight), "done"
  entry,         \* "none", "route" (POST /api/chat) or "direct" (another caller)
  body,          \* req.body of the POST /api/chat request
  effectiveRole, \* the role whose views and credentials the call was given
  allowedViews,  \* the allowedViews argument of chatWithDenodoAI
  request,       \* "none", "open" (the http request with its handlers), or
                 \* "stalled" (open, and the engine will send nothing more)
  settled,       \* the settled flag of the executor
  promise,       \* "none", "pending", "resolved", "rejected"
  outcome,       \* what the promise was settled with
  settlements,   \* number of resolve()/reject() calls made
  res,           \* the engine response the 'end' handler read
  events,        \* number of events delivered to the call
  lastEvent,     \* the event delivered last: "none", "end" or "error"
  http,          \* the HTTP response of POST /api/chat (status 0: none yet)
  log,           \* the console output, in order
  issued,        \* number of requests made to the engine
  validated,     \* number of engine responses the 'end' handler went through
  connected,     \* the client of POST /api/chat still holds its connection
  sent,          \* the request made to the engine (NoRequest: none)
  calls,         \* several calls in flight: per call, its arguments, its
                 \* settled flag, its promise and the first event it was sent
  policy,        \* the value of the ROLE_VIEW_PERMISSIONS object
  denodoClient,  \* routes.ts line 16: TRUE when createDenodoClient() made a client
  files,         \* the data directory: drug-index.json and labels/*.txt
  drugIndex,     \* routes.ts line 12: the cached drug index (NoData: null)
  loaded,        \* the last loadDrugIndex / loadLabel call and its result
  chatMessages,        \* HomePage state: the messages shown, in order
  unlockedSqlQueries,  \* HomePage state: the message indexes marked unlocked
  sqlPasswordModal,    \* HomePage state: { open, messageIdx }
  sqlPasswordInput,    \* HomePage state: the text typed in the dialog
  selectedRole,        \* HomePage state userRole
  showAuth,            \* HomePage state: the sign-in card is shown
  isLoggedIn,          \* HomePage state
  credentialsTyped,    \* username and password are both non-blank
  isPending,           \* chatMutation.isPending
  created,             \* number of messages created so far
  submittedFor,        \* the messages the correct password was submitted for
  queryHistory,        \* MemStorage.queryHistory
  returned             \* the last getQueryHistory call: its limit, the history
                       \* before and after it, and the entries it returned

routeVars == <<pc, entry, body, effectiveRole, allowedViews, connected>>
callVars == <<request, settled, promise, outcome, settlements, res, events, lastEvent>>
auditVars == <<log, issued, validated, sent>>
chatVars == <<env, pc, entry, body, effectiveRole, allowedViews, request, settled,
              promise, outcome, settlements, res, events, lastEvent, http, log,
              issued, validated, connected, sent>>
concurrentVars == <<calls, policy>>
loadVars == <<denodoClient, files, drugIndex, loaded>>
pageVars == <<chatMessages, unlockedSqlQueries, sqlPasswordModal, sqlPasswordInput,
              selectedRole, showAuth, isLoggedIn, credentialsTyped, isPending,
              created, submittedFor>>
storageVars == <<queryHistory, returned>>
vars == <<chatVars, concurrentVars, loadVars, pageVars, storageVars>>

\* what the handlers of one part of the program leave alone
besideChat == <<concurrentVars, loadVars, pageVars, storageVars>>
besideCalls == <<chatVars, loadVars, pageVars, storageVars>>
besideLoad == <<chatVars, concurrentVars, pageVars, storageVars>>
besidePage == <<chatVars, concurrentVars, loadVars, storageVars>>
besideStorage == <<chatVars, concurrentVars, loadVars, pageVars>>

NoBody == [messages |-> <<>>, userRole |-> Undefined]
NoOutcome == [settle |-> "none", branch |-> "none", value |-> NoResponse, error |-> NoError]
NoRes == [statusCode |-> 0, body |-> MalformedBody]
\* res.status(status).json(...): the status, and either { error: text } or
\* the ChatResponse. interpolated holds what an error text carries besides
\* its literal parts (NoError when the text is a literal).
HttpResponse(status, error, response) ==
  [status |-> status, error |-> error, response |-> response,
   interpolated |-> NoError]

\* res.status(status).json({ error: error.message })
ErrorResponse(status, error) ==
  [status |-> status, error |-> error.message, response |-> NoResponse,
   interpolated |-> Error(<<>>, error.statusCode, error.responseData)]
NoHttp == HttpResponse(0, <<>>, NoResponse)
NoCall ==
  [role |-> "", allowedViews |-> <<>>, settled |-> FALSE, promise |-> "none",
   outcome |-> NoOutcome, first |-> "none", delivered |-> NoRes]

\* the label data a loader returns, or holds in the cache
Data(source, entries, labelId) ==
  [source |-> source, entries |-> entries, labelId |-> labelId]
NoData == Data("none", <<>>, "")
Loaded(data) == [ok |-> TRUE, data |-> data, error |-> ""]
Thrown(error) == [ok |-> FALSE, data |-> NoData, error |-> error]
NoLoad ==
  [fn |-> "none", labelId |-> "", queried |-> FALSE, denodo |-> Thrown(""),
   result |-> Thrown("")]
NoFiles == [index |-> "ENOENT", entries |-> <<>>, labels |-> {}]

InitConcurrentVars ==
  /\ calls = [i \in 1..NumCalls |-> NoCall]
  /\ policy = ROLE_VIEW_PERMISSIONS

InitLoadVars ==
  /\ denodoClient = FALSE
  /\ files = NoFiles
  /\ drugIndex = NoData
  /\ loaded = NoLoad

\* messageIdx: null
NoIdx == -1
ModalClosed == [open |-> FALSE, messageIdx |-> NoIdx]

\* part_002 lines 75-86: the initial state of HomePage
InitPageVars ==
  /\ chatMessages = <<>>
  /\ unlockedSqlQueries = {}
  /\ sqlPasswordModal = ModalClosed
  /\ sqlPasswordInput = ""
  /\ selectedRole = "judge"
  /\ showAuth = TRUE
  /\ isLoggedIn = FALSE
  /\ credentialsTyped = FALSE
  /\ isPending = FALSE
  /\ created = 0
  /\ submittedFor = {}

NotCalled == [called |-> FALSE, limit |-> 0, before |-> <<>>, after |-> <<>>, entries |-> <<>>]

\* part_005 lines 16-19: the constructor of MemStorage
InitStorageVars ==
  /\ queryHistory = <<>>
  /\ returned = NotCalled

InitChatVars ==
  /\ env \in Environments
  /\ pc = "idle"
  /\ entry = "none"
  /\ body = NoBody
  /\ effectiveRole = ""
  /\ allowedViews = <<>>
  /\ request = "none"
  /\ settled = FALSE
  /\ promise = "none"
  /\ outcome = NoOutcome
  /\ settlements = 0
  /\ res = NoRes
  /\ events = 0
  /\ lastEvent = "none"
  /\ http = NoHttp
  /\ log = <<>>
  /\ issued = 0
  /\ validated = 0
  /\ connected = TRUE
  /\ sent = NoRequest

Init ==
  InitChatVars /\ InitConcurrentVars /\ InitLoadVars /\ InitPageVars /\ InitStorageVars

\* ------------------------------------------------------ POST /api/chat
\* chatRequestSchema = z.object({ messages: z.array(chatMessageSchema) }):
\* safeParse succeeds when every message has role "user" or "assistant", and
\* its data holds the keys of the schema only (zod strips the others).
schemaAccepts(b) ==
  \A i \in 1..Len(b.messages) : b.messages[i] \in {"user", "assistant"}
safeParse(b) == [messages |-> b.messages, userRole |-> Undefined]

\* a test that passes any non-empty list of messages
hasAnyMessage(messages) == Len(messages) > 0

\* messages.some(m => m.role === 'user')
hasUserMessage(messages) == \E i \in 1..Len(messages) : messages[i] = "user"

\* userRole || 'judge'
effectiveRoleOf(userRole) == IF Truthy(userRole) THEN userRole.val ELSE "judge"

\* lines 182-186
PostChatInvalid(b) ==
  /\ pc = "idle"
  /\ ~schemaAccepts(b)
  /\ pc' = "done" /\ entry' = "route" /\ body' = b
  /\ http' = HttpResponse(400, << "validation.error.errors" >>, NoResponse)
  /\ UNCHANGED <<env, effectiveRole, allowedViews, callVars, auditVars, connected>>
  /\ UNCHANGED besideChat

\* lines 190-195
PostChatNotConfigured(b) ==
  /\ pc = "idle"
  /\ schemaAccepts(b)
  /\ ~isDenodoAIConfigured(env)
  /\ pc' = "done" /\ entry' = "route" /\ body' = b
  /\ http' = HttpResponse(503,
       << "Denodo AI SDK is not configured. Please set DENODO_AI_SDK_URL, DENODO_USERNAME, and DENODO_PASSWORD environment variables." >>,
       NoResponse)
  /\ UNCHANGED <<env, effectiveRole, allowedViews, callVars, auditVars, connected>>
  /\ UNCHANGED besideChat

\* lines 197-201
PostChatNoUserMessage(b) ==
  /\ pc = "idle"
  /\ schemaAccepts(b)
  /\ isDenodoAIConfigured(env)
  /\ ~hasUserMessage(safeParse(b).messages)
  /\ pc' = "done" /\ entry' = "route" /\ body' = b
  /\ http' = HttpResponse(400, << "No user message found" >>, NoResponse)
  /\ UNCHANGED <<env, effectiveRole, allowedViews, callVars, auditVars, connected>>
  /\ UNCHANGED besideChat

\* chatWithDenodoAI up to the return of its promise (lines 145-375): the
\* credentials check, then the executor, which runs synchronously: new URL()
\* throws on a malformed endpoint and the catch rejects, otherwise the
\* request is open when the executor returns.
chatWithDenodoAI(views) ==
  /\ allowedViews' = views
  /\ res' = NoRes /\ events' = 0 /\ lastEvent' = "none"
  /\ IF ~(env.username /\ env.password)
       THEN /\ promise' = "rejected"
            /\ outcome' = Reject("credentials", Error(credentialsMessage, 0, MalformedBody))
            /\ settlements' = 1
            /\ settled' = FALSE
            /\ request' = "none"
            /\ issued' = issued
     ELSE IF env.url = "invalid"
       THEN /\ promise' = "rejected"
            /\ outcome' = onThrow
            /\ settlements' = 1
            /\ settled' = TRUE
            /\ request' = "none"
            /\ issued' = issued
     ELSE /\ promise' = "pending"
          /\ outcome' = NoOutcome
          /\ settlements' = 0
          /\ settled' = FALSE
          /\ request' = "open"
          /\ issued' = issued + 1

\* lines 203-227
PostChatCall(b) ==
  /\ pc = "idle"
  /\ schemaAccepts(b)
  /\ isDenodoAIConfigured(env)
  /\ hasUserMessage(safeParse(b).messages)
  /\ pc' = "awaiting" /\ entry' = "route" /\ body' = b
  /\ effectiveRole' = effectiveRoleOf(safeParse(b).userRole)
  /\ chatWithDenodoAI(viewList(getAllowedViewsForRole(effectiveRoleOf(safeParse(b).userRole))))
  /\ log' = log
              \o accessControlLog(effectiveRoleOf(safeParse(b).userRole),
                    getAllowedViewsForRole(effectiveRoleOf(safeParse(b).userRole)))
              \o queryLog(env,
                    viewList(getAllowedViewsForRole(effectiveRoleOf(safeParse(b).userRole))))
  /\ sent' = requestFor(env, effectiveRoleOf(safeParse(b).userRole), safeParse(b).messages)
  /\ UNCHANGED <<env, http, validated, connected>>
  /\ UNCHANGED besideChat

\* chatWithDenodoAI called for a role by any other caller of the module,
\* with the views getAllowedViewsForRole gives for it
DirectCall(role) ==
  /\ pc = "idle"
  /\ pc' = "awaiting" /\ entry' = "direct"
  /\ effectiveRole' = role
  /\ chatWithDenodoAI(viewList(getAllowedViewsForRole(role)))
  /\ log' = log \o queryLog(env, viewList(getAllowedViewsForRole(role)))
  /\ sent' = requestFor(env, role, << "user" >>)
  /\ UNCHANGED <<env, body, http, validated, connected>>
  /\ UNCHANGED besideChat

\* --------------------------------------------- events of the open request
\* resolve(value) / reject(error) with settled = true before it; a promise
\* that is no longer pending keeps its first state and value
settle(o) ==
  /\ settled' = TRUE
  /\ settlements' = settlements + 1
  /\ promise' = (IF promise # "pending" THEN promise
                 ELSE IF o.settle = "resolve" THEN "resolved" ELSE "rejected")
  /\ outcome' = (IF promise # "pending" THEN outcome ELSE o)

\* the 'end' handler without its guard
endGuardMissing == FALSE

\* an 'end' handler that also returns when the client has gone
endGuardOrDisconnected == settled \/ ~connected

\* line 227: if (settled) return;
endGuard == settled

\* the 'error' handler without its guard
errorGuardMissing == FALSE

\* line 362: if (settled) return;
errorGuard == settled

\* res.on('end', ...), lines 225-358
ResponseEnd ==
  /\ request = "open"
  /\ events < MaxEvents
  /\ events' = events + 1
  /\ lastEvent' = "end"
  /\ IF endGuard
       THEN UNCHANGED <<settled, promise, outcome, settlements, res, log, validated>>
       ELSE \E r \in EngineResponses :
              /\ res' = r
              /\ settle(onEnd(r, allowedViews))
              /\ log' = log \o endLog(r, allowedViews)
              /\ validated' = validated + 1
  /\ UNCHANGED <<env, routeVars, request, http, issued, sent>>
  /\ UNCHANGED besideChat

\* req.on('error', ...), lines 361-366
RequestError ==
  /\ request = "open"
  /\ events < MaxEvents
  /\ events' = events + 1
  /\ lastEvent' = "error"
  /\ IF errorGuard
       THEN UNCHANGED <<settled, promise, outcome, settlements, log>>
       ELSE settle(onError) /\ log' = log \o errorLog
  /\ UNCHANGED <<env, routeVars, request, res, http, issued, validated, sent>>
  /\ UNCHANGED besideChat

\* The engine accepts the connection and never completes its response, or
\* the response stream closes without 'end': no 'end' and no request 'error'
\* follows. Lines 200-368 set no timeout and register no 'timeout', 'close'
\* or 'aborted' handler, so no handler of the call runs for it.
EngineStalls ==
  /\ request = "open"
  /\ promise = "pending"
  /\ request' = "stalled"
  /\ UNCHANGED <<env, routeVars, settled, promise, outcome, settlements, res,
                 events, lastEvent, http, auditVars>>
  /\ UNCHANGED besideChat

\* The client of POST /api/chat closes its connection while the handler
\* awaits the call. routes.ts lines 180-243 register nothing on req or res
\* for it and pass the call no signal: no statement of the gateway runs.
ClientDisconnect ==
  /\ entry = "route"
  /\ pc = "awaiting"
  /\ connected
  /\ connected' = FALSE
  /\ UNCHANGED <<env, pc, entry, body, effectiveRole, allowedViews, callVars,
                 http, auditVars>>
  /\ UNCHANGED besideChat

\* ------------------------------------------- the route after the await
\* lines 229-242
accessDenied == << "Access Denied:" >>

\* error.message: the literal parts of the message in order (no literal of
\* the source starts with the characters of another)
errorMessage(error) == error.message

\* the answer to an error, made of the message of the error
serverErrorWithMessage(error) == ErrorResponse(500, error)

\* line 241: res.status(500).json({ error: 'Failed to process chat request' })
serverError(error) ==
  HttpResponse(500, << "Failed to process chat request" >>, NoResponse)

respond(o) ==
  IF o.settle = "resolve" THEN HttpResponse(200, <<>>, o.value)
  ELSE IF startsWith(errorMessage(o.error), accessDenied)
    THEN ErrorResponse(403, o.error)
  ELSE serverError(o.error)

RouteRespond ==
  /\ pc = "awaiting"
  /\ entry = "route"
  /\ promise \in {"resolved", "rejected"}
  /\ pc' = "done"
  /\ http' = respond(outcome)
  /\ log' = log \o catchLog(outcome)
  /\ UNCHANGED <<env, entry, body, effectiveRole, allowedViews, callVars, issued,
                 validated, connected, sent>>
  /\ UNCHANGED besideChat

Next ==
  \/ \E b \in RequestBodies : PostChatInvalid(b)
  \/ \E b \in RequestBodies : PostChatNotConfigured(b)
  \/ \E b \in RequestBodies : PostChatNoUserMessage(b)
  \/ \E b \in RequestBodies : PostChatCall(b)
  \/ \E role \in RoleStrings : DirectCall(role)
  \/ ResponseEnd
  \/ RequestError
  \/ EngineStalls
  \/ RouteRespond

Spec == Init /\ [][Next]_vars

\* The same program with a client that may close its connection while the
\* handler awaits the call. No statement of the gateway reads the state of
\* the connection, so Spec leaves these steps out.
\* chatWithDenodoAI called for a role by a caller of the module, with the
\* gateway configured: the exported function on its own, without the route
InitDirect == Init /\ isDenodoAIConfigured(env)

NextDirect ==
  \/ \E role \in RoleStrings : DirectCall(role)
  \/ ResponseEnd
  \/ RequestError
  \/ EngineStalls

SpecDirect == InitDirect /\ [][NextDirect]_vars

NextCancel == Next \/ ClientDisconnect
SpecCancel == Init /\ [][NextCancel]_vars

\* ------------------------------------------- several requests in flight
\* POST /api/chat handlers that await their calls at the same time. Each
\* call of chatWithDenodoAI runs the executor of its own promise, whose
\* `let settled` (line 176), resolve and reject belong to that call; the
\* handlers of all calls run one at a time on the event loop, in any order.

\* ROLE_VIEW_PERMISSIONS[userRole] || ROLE_VIEW_PERMISSIONS.judge, read from
\* the object as it is now
allowedViewsIn(table, userRole) ==
  IF userRole \in DOMAIN table THEN table[userRole] ELSE table.judge

\* responses of the engine to the calls in flight together
ConcurrentResponses ==
  { [statusCode |-> 200,
     body |-> Body("object", Txt(<<"V","3"," ","i","s">>), t, Undefined)] :
       t \in { JsArray(<<>>), JsArray(<< Name("interactions") >>),
               JsArray(<< Name("master_safety_risk") >>) } }
    \cup { [statusCode |-> 500, body |-> MalformedBody] }

\* one settled flag for all calls
settledShared(cs, i) == \E j \in DOMAIN cs : cs[j].settled

\* line 176: the settled flag the handlers of call i read and write
settledOf(cs, i) == cs[i].settled

\* routes.ts lines 206-227: request i calls chatWithDenodoAI for its role
Dispatch(i, role) ==
  /\ calls[i].promise = "none"
  /\ calls' = [calls EXCEPT ![i] =
       [NoCall EXCEPT !.role = role,
                      !.allowedViews = viewList(allowedViewsIn(policy, role)),
                      !.promise = "pending"]]
  /\ UNCHANGED policy
  /\ UNCHANGED besideCalls

\* the call after one of its handlers ran for an event with outcome o
afterEvent(cs, i, kind, r, o) ==
  LET c == cs[i]
      seen == [c EXCEPT !.first = IF c.first = "none" THEN kind ELSE c.first,
                        !.delivered = IF c.first = "none" THEN r ELSE c.delivered]
  IN  IF settledOf(cs, i) THEN seen
      ELSE [seen EXCEPT !.settled = TRUE,
                        !.promise = IF o.settle = "resolve" THEN "resolved" ELSE "rejected",
                        !.outcome = o]

\* res.on('end', ...) of call i, lines 225-358
CallEnd(i, r) ==
  /\ calls[i].promise # "none"
  /\ calls' = [calls EXCEPT ![i] =
       afterEvent(calls, i, "end", r, onEnd(r, calls[i].allowedViews))]
  /\ UNCHANGED policy
  /\ UNCHANGED besideCalls

\* req.on('error', ...) of call i, lines 361-366
CallError(i) ==
  /\ calls[i].promise # "none"
  /\ calls' = [calls EXCEPT ![i] = afterEvent(calls, i, "error", NoRes, onError)]
  /\ UNCHANGED policy
  /\ UNCHANGED besideCalls

InitConcurrent ==
  /\ Init
  /\ env = [url |-> "valid", username |-> TRUE, password |-> TRUE]

NextConcurrent ==
  \/ \E i \in 1..NumCalls, role \in RoleStrings : Dispatch(i, role)
  \/ \E i \in 1..NumCalls, r \in ConcurrentResponses : CallEnd(i, r)
  \/ \E i \in 1..NumCalls : CallError(i)

SpecConcurrent == InitConcurrent /\ [][NextConcurrent]_vars

\* ------------------------------------------- drug index and label loaders
\* server/denodo.ts and routes.ts lines 31-91. A Denodo response is what
\* fetch gave: a thrown network error, a non-ok status, a body that is not
\* JSON, the JSON value null, an object without `elements`, or rows.
LabelIds == {"drug-001", "drug-002"}
RowLists == {<<>>, <<"drug-001">>, <<"drug-002">>, <<"drug-001", "drug-002">>}
DenodoResponses ==
  { [kind |-> k, rows |-> <<>>] : k \in {"network", "http", "json", "null", "noElements"} }
    \cup { [kind |-> "rows", rows |-> l] : l \in RowLists }

\* the data directory: drug-index.json is missing, is not JSON, or lists
\* entries; labels/<labelId>.txt exists for the ids in `labels`
DataDirectories ==
  { [index |-> i, entries |-> <<>>, labels |-> ls] :
       i \in {"ENOENT", "SyntaxError"}, ls \in SUBSET LabelIds }
    \cup { [index |-> "ok", entries |-> l, labels |-> ls] :
       l \in RowLists, ls \in SUBSET LabelIds }

has(entries, labelId) == \E k \in 1..Len(entries) : entries[k] = labelId

\* denodo.ts lines 33-67: the rows of the view, or the error thrown again
executeQuery(r) ==
  CASE r.kind = "rows" -> Loaded(Data("denodo", r.rows, ""))
    [] r.kind = "noElements" -> Loaded(Data("denodo", <<>>, ""))
    [] r.kind = "network" -> Thrown("fetch failed")
    [] r.kind = "http" -> Thrown("Denodo API error")
    [] r.kind = "json" -> Thrown("SyntaxError")
    [] OTHER -> Thrown("TypeError")

\* denodo.ts lines 73-89
getDrugIndex(r) == executeQuery(r)

\* denodo.ts lines 94-118
getDrugLabel(labelId, r) ==
  LET q == executeQuery(r)
  IN  IF ~q.ok THEN q
      ELSE IF Len(q.data.entries) = 0 THEN Thrown("not found in Denodo")
      ELSE Loaded(Data("denodo", <<>>, q.data.entries[1]))

\* routes.ts lines 31-35
loadDrugIndexFromLocal(fs) ==
  IF fs.index = "ok" THEN Loaded(Data("local", fs.entries, "")) ELSE Thrown(fs.index)

\* routes.ts lines 58-73
loadLabelFromLocal(fs, labelId) ==
  LET index == loadDrugIndexFromLocal(fs)
  IN  IF ~index.ok THEN index
      ELSE IF ~has(index.data.entries, labelId) THEN Thrown("not found")
      ELSE IF labelId \notin fs.labels THEN Thrown("ENOENT")
      ELSE Loaded(Data("local", <<>>, labelId))

\* a catch block that throws the Denodo error again
rethrow(q, local) == q

\* routes.ts lines 47-55 and 83-90: the catch block logs the error, and the
\* function goes on to the local files
fallBack(q, local) == local

\* routes.ts lines 41-55 and 77-90: what the function returns when the
\* Denodo call gave q and the local read would give local
tryDenodoFirst(client, q, local) ==
  IF client THEN (IF q.ok THEN q ELSE fallBack(q, local)) ELSE local

\* routes.ts lines 37-56
LoadDrugIndex(r) ==
  LET cached == drugIndex # NoData
      q == getDrugIndex(r)
      result == IF cached THEN Loaded(drugIndex)
                ELSE tryDenodoFirst(denodoClient, q, loadDrugIndexFromLocal(files))
  IN  /\ (cached \/ ~denodoClient) => r = [kind |-> "network", rows |-> <<>>]
      /\ loaded' = [fn |-> "loadDrugIndex", labelId |-> "",
                    queried |-> ~cached /\ denodoClient, denodo |-> q,
                    result |-> result]
      /\ drugIndex' = IF result.ok THEN result.data ELSE drugIndex
      /\ UNCHANGED <<denodoClient, files>>
      /\ UNCHANGED besideLoad

\* routes.ts lines 75-91
LoadLabel(labelId, r) ==
  LET q == getDrugLabel(labelId, r)
  IN  /\ ~denodoClient => r = [kind |-> "network", rows |-> <<>>]
      /\ loaded' = [fn |-> "loadLabel", labelId |-> labelId,
                    queried |-> denodoClient, denodo |-> q,
                    result |-> tryDenodoFirst(denodoClient, q,
                                              loadLabelFromLocal(files, labelId))]
      /\ UNCHANGED <<denodoClient, files, drugIndex>>
      /\ UNCHANGED besideLoad

InitLoad ==
  /\ InitChatVars
  /\ env = [url |-> "valid", username |-> TRUE, password |-> TRUE]
  /\ InitConcurrentVars
  /\ denodoClient \in BOOLEAN
  /\ files \in DataDirectories
  /\ drugIndex = NoData
  /\ loaded = NoLoad
  /\ InitPageVars
  /\ InitStorageVars

NextLoad ==
  \/ \E r \in DenodoResponses : LoadDrugIndex(r)
  \/ \E labelId \in LabelIds, r \in DenodoResponses : LoadLabel(labelId, r)

SpecLoad == InitLoad /\ [][NextLoad]_vars

\* ------------------------------------------------------ the chat page
\* client HomePage (part_002). A message is its role, whether it carries a
\* non-empty sqlQuery, and the number it was created with; message idx of
\* the source (counted from 0) is chatMessages[idx + 1].
SQL_PASSWORD == "denodo"
PageRoles == {"judge", "physician", "patient"}
Message(role, sqlQuery, id) == [role |-> role, sqlQuery |-> sqlQuery, id |-> id]
messageAt(idx) == chatMessages[idx + 1]
Indexes == 0..(Len(chatMessages) - 1)

\* the controls of the page can be used: the sign-in card is not shown and
\* the password dialog is not open over the page
pageShown == ~showAuth /\ ~sqlPasswordModal.open

\* lines 275-278: Clear History leaves unlockedSqlQueries as it is
keepUnlocked(unlocked) == unlocked

\* lines 200-207: the username and password fields
TypeCredentials ==
  /\ showAuth /\ ~credentialsTyped
  /\ credentialsTyped' = TRUE
  /\ UNCHANGED <<chatMessages, unlockedSqlQueries, sqlPasswordModal, sqlPasswordInput,
                 selectedRole, showAuth, isLoggedIn, isPending, created, submittedFor>>
  /\ UNCHANGED besidePage

\* line 223: the Account Type select
SelectRole(role) ==
  /\ showAuth
  /\ selectedRole' = role
  /\ UNCHANGED <<chatMessages, unlockedSqlQueries, sqlPasswordModal, sqlPasswordInput,
                 showAuth, isLoggedIn, credentialsTyped, isPending, created, submittedFor>>
  /\ UNCHANGED besidePage

\* lines 158-164
handleAuthSubmit ==
  /\ showAuth
  /\ IF credentialsTyped
       THEN isLoggedIn' = TRUE /\ showAuth' = FALSE
       ELSE UNCHANGED <<isLoggedIn, showAuth>>
  /\ UNCHANGED <<chatMessages, unlockedSqlQueries, sqlPasswordModal, sqlPasswordInput,
                 selectedRole, credentialsTyped, isPending, created, submittedFor>>
  /\ UNCHANGED besidePage

\* lines 328-333: Logout
Logout ==
  /\ pageShown
  /\ isLoggedIn' = FALSE /\ showAuth' = TRUE /\ credentialsTyped' = FALSE
  /\ UNCHANGED <<chatMessages, unlockedSqlQueries, sqlPasswordModal, sqlPasswordInput,
                 selectedRole, isPending, created, submittedFor>>
  /\ UNCHANGED besidePage

\* lines 133-156, with the send button disabled while a request is pending
\* (line 556)
handleChatSend ==
  /\ pageShown /\ ~isPending
  /\ created < MaxChat
  /\ chatMessages' = Append(chatMessages, Message("user", FALSE, created + 1))
  /\ created' = created + 1
  /\ isPending' = TRUE
  /\ UNCHANGED <<unlockedSqlQueries, sqlPasswordModal, sqlPasswordInput, selectedRole,
                 showAuth, isLoggedIn, credentialsTyped, submittedFor>>
  /\ UNCHANGED besidePage

\* lines 96-131: onSuccess (the answer, with or without sqlQuery) and
\* onError (a message without sqlQuery)
ChatSettled(sqlQuery) ==
  /\ isPending
  /\ created < MaxChat
  /\ chatMessages' = Append(chatMessages, Message("assistant", sqlQuery, created + 1))
  /\ created' = created + 1
  /\ isPending' = FALSE
  /\ UNCHANGED <<unlockedSqlQueries, sqlPasswordModal, sqlPasswordInput, selectedRole,
                 showAuth, isLoggedIn, credentialsTyped, submittedFor>>
  /\ UNCHANGED besidePage

\* lines 275-278: Clear History
ClearHistory ==
  /\ pageShown
  /\ chatMessages' = <<>>
  /\ unlockedSqlQueries' = keepUnlocked(unlockedSqlQueries)
  /\ UNCHANGED <<sqlPasswordModal, sqlPasswordInput, selectedRole, showAuth, isLoggedIn,
                 credentialsTyped, isPending, created, submittedFor>>
  /\ UNCHANGED besidePage

\* lines 470-472: the SQL block of message idx is rendered, and unlocked
sqlBlock(idx) == messageAt(idx).sqlQuery /\ selectedRole = "judge"
sqlDisplayed(idx) == ~showAuth /\ sqlBlock(idx) /\ idx \in unlockedSqlQueries

\* lines 175-178, from the "View SQL Query" button of line 481
openSqlPasswordModal(idx) ==
  /\ pageShown
  /\ sqlBlock(idx) /\ idx \notin unlockedSqlQueries
  /\ sqlPasswordModal' = [open |-> TRUE, messageIdx |-> idx]
  /\ sqlPasswordInput' = ""
  /\ UNCHANGED <<chatMessages, unlockedSqlQueries, selectedRole, showAuth, isLoggedIn,
                 credentialsTyped, isPending, created, submittedFor>>
  /\ UNCHANGED besidePage

\* line 617: typing in the dialog
TypeSqlPassword(text) ==
  /\ sqlPasswordModal.open
  /\ sqlPasswordInput # text
  /\ sqlPasswordInput' = text
  /\ UNCHANGED <<chatMessages, unlockedSqlQueries, sqlPasswordModal, selectedRole,
                 showAuth, isLoggedIn, credentialsTyped, isPending, created, submittedFor>>
  /\ UNCHANGED besidePage

\* lines 166-173, from the Unlock button or the Enter key of the dialog
handleSqlPasswordSubmit ==
  /\ sqlPasswordModal.open
  /\ IF sqlPasswordModal.messageIdx # NoIdx /\ sqlPasswordInput = SQL_PASSWORD
       THEN /\ unlockedSqlQueries' = unlockedSqlQueries \cup {sqlPasswordModal.messageIdx}
            /\ sqlPasswordModal' = ModalClosed
            /\ sqlPasswordInput' = ""
            /\ submittedFor' =
                 IF sqlPasswordModal.messageIdx \in Indexes
                   THEN submittedFor \cup {messageAt(sqlPasswordModal.messageIdx).id}
                   ELSE submittedFor
       ELSE UNCHANGED <<unlockedSqlQueries, sqlPasswordModal, sqlPasswordInput, submittedFor>>
  /\ UNCHANGED <<chatMessages, selectedRole, showAuth, isLoggedIn, credentialsTyped,
                 isPending, created>>
  /\ UNCHANGED besidePage

\* line 628 (Cancel) and line 601 (the dialog dismissed: onOpenChange(false))
CancelSql ==
  /\ sqlPasswordModal.open
  /\ sqlPasswordModal' = ModalClosed
  /\ UNCHANGED <<chatMessages, unlockedSqlQueries, sqlPasswordInput, selectedRole,
                 showAuth, isLoggedIn, credentialsTyped, isPending, created, submittedFor>>
  /\ UNCHANGED besidePage
DismissSql ==
  /\ sqlPasswordModal.open
  /\ sqlPasswordModal' = [sqlPasswordModal EXCEPT !.open = FALSE]
  /\ UNCHANGED <<chatMessages, unlockedSqlQueries, sqlPasswordInput, selectedRole,
                 showAuth, isLoggedIn, credentialsTyped, isPending, created, submittedFor>>
  /\ UNCHANGED besidePage

InitPage ==
  /\ Init
  /\ env = [url |-> "valid", username |-> TRUE, password |-> TRUE]

NextPage ==
  \/ TypeCredentials
  \/ \E role \in PageRoles : SelectRole(role)
  \/ handleAuthSubmit
  \/ Logout
  \/ handleChatSend
  \/ \E sqlQuery \in BOOLEAN : ChatSettled(sqlQuery)
  \/ ClearHistory
  \/ \E idx \in Indexes : openSqlPasswordModal(idx)
  \/ \E text \in {"wrong", SQL_PASSWORD} : TypeSqlPassword(text)
  \/ handleSqlPasswordSubmit
  \/ CancelSql
  \/ DismissSql

SpecPage == InitPage /\ [][NextPage]_vars

\* ------------------------------------------------------ the query history
\* MemStorage (part_005). An entry is the query it was added with and its
\* id, here the number of the addQueryHistory call.
Queries == {"q1", "q2"}
DefaultLimit == 10
Limits == 0..(MaxHistory + 1)

\* Array.prototype.slice(start) for start = -n: a negative start counts
\* from the end, and -0 is 0, the start of the array
sliceFromMinus(list, n) ==
  IF n = 0 THEN list
  ELSE IF n >= Len(list) THEN list
  ELSE SubSeq(list, Len(list) - n + 1, Len(list))

\* Array.prototype.reverse, on the copy slice() made
reverse(list) == [i \in 1..Len(list) |-> list[Len(list) + 1 - i]]

\* lines 38-43
addQueryHistory(query) ==
  /\ Len(queryHistory) < MaxHistory
  /\ queryHistory' = Append(queryHistory, [query |-> query, id |-> Len(queryHistory) + 1])
  /\ UNCHANGED returned
  /\ UNCHANGED besideStorage

\* lines 45-47
getQueryHistory(limit) ==
  /\ returned' = [called |-> TRUE, limit |-> limit, before |-> queryHistory,
                  after |-> queryHistory,
                  entries |-> reverse(sliceFromMinus(queryHistory, limit))]
  /\ UNCHANGED queryHistory
  /\ UNCHANGED besideStorage

InitStorage ==
  /\ Init
  /\ env = [url |-> "valid", username |-> TRUE, password |-> TRUE]

NextStorage ==
  \/ \E query \in Queries : addQueryHistory(query)
  \/ \E limit \in Limits : getQueryHistory(limit)
  \/ getQueryHistory(DefaultLimit)

SpecStorage == InitStorage /\ [][NextStorage]_vars

\* ================================================================ claims
\* The 'end' handler ran past its guard and read the engine response res.
endRan == res.statusCode # 0

\* ... and res is a 2xx response whose body is a JSON object
answered == endRan /\ is2xx(res.statusCode) /\ res.body.kind = "object"

\* the used list of res, as parsed from tables_used
used == parseTablesUsed(res.body.tables_used)

\* allowedResources(R) for the role R of the call
allowedResources == { getAllowedViewsForRole(effectiveRole)[i] :
                        i \in 1..Len(getAllowedViewsForRole(effectiveRole)) }

\* the unprefixed name of an identifier: what follows its last dot
unprefixed(id) == id[Len(id)]

\* the promise was rejected with the policy violation, and nothing resolved
denied ==
  /\ promise = "rejected"
  /\ outcome.settle = "reject"
  /\ outcome.error.message = failClosedMessage
  /\ outcome.value = NoResponse

\* C1: fail-closed on missing provenance. For every role, when the 'end'
\* handler reads a 2xx response whose parsed tables_used list is empty and
\* whose answer matches no "no answer" pattern, the promise is rejected with
\* the policy violation; it is not resolved and carries no answer.
C1_FailClosed ==
  (answered /\ used = JsArray(<<>>) /\ ~isNoAnswerResponse(res.body.answer))
    => denied

C1_Witness ==
  /\ answered /\ used = JsArray(<<>>) /\ ~isNoAnswerResponse(res.body.answer)
  /\ TruthyText(res.body.answer)
  /\ effectiveRole = "patient"
  /\ denied

\* C2: single settlement. At most one resolve()/reject() call is made for a
\* call, and once the promise is resolved or rejected no later event changes
\* its state or what it was settled with.
firstOutcomeStays ==
  (promise \in {"resolved", "rejected"}) => (promise' = promise /\ outcome' = outcome)

C2_SingleSettlement == [](settlements <= 1) /\ [][firstOutcomeStays]_vars

\* a request 'error' delivered after the 'end' handler resolved the promise
C2_Witness ==
  /\ promise = "resolved"
  /\ lastEvent = "error"
  /\ events >= 2
  /\ settlements = 1

\* the used list is a non-empty list of identifiers
usedNonEmpty == used.t = "array" /\ Len(used.items) > 0

\* some member of the used list has an unprefixed name outside allowedResources
someUnauthorized ==
  usedNonEmpty /\ \E i \in 1..Len(used.items) : unprefixed(used.items[i]) \notin allowedResources

\* every member of the used list has an unprefixed name in allowedResources
allAuthorized ==
  usedNonEmpty /\ \A i \in 1..Len(used.items) : unprefixed(used.items[i]) \in allowedResources

\* the promise was resolved with this message and the used list as reported
resolvedWith(message) ==
  /\ promise = "resolved"
  /\ outcome.settle = "resolve"
  /\ outcome.value.message = message
  /\ outcome.value.tablesUsed = used

\* the route answered 200 with what the promise was resolved with
routeDelivered ==
  (entry = "route" /\ pc = "done") => (http.status = 200 /\ http.response = outcome.value)

\* the engine's answer, or the placeholder the gateway puts for an absent or
\* empty answer
answerOrPlaceholder ==
  IF res.body.answer.def /\ res.body.answer.val # <<>>
    THEN res.body.answer.val
    ELSE << "No response generated" >>

\* C3 as stated: a non-empty used list with an unauthorized member resolves
\* with the engine's answer followed by the advisory suffix, tablesUsed as
\* reported, HTTP 200 (stated for the responses that carry an answer string).
C3_AsStated ==
  (answered /\ res.body.answer.def /\ someUnauthorized)
    => (resolvedWith(res.body.answer.val \o disclaimerText) /\ routeDelivered)

\* C3 (amended): a non-empty used list with an unauthorized member resolves
\* (HTTP 200) with tablesUsed as reported and with the advisory suffix
\* appended to the engine's answer, or to "No response generated" when the
\* answer is absent or empty.
C3_Disclaim ==
  (answered /\ someUnauthorized)
    => (resolvedWith(answerOrPlaceholder \o disclaimerText) /\ routeDelivered)

C3_Witness ==
  /\ answered /\ someUnauthorized
  /\ TruthyText(res.body.answer)
  /\ entry = "route" /\ pc = "done" /\ http.status = 200
  /\ http.response.message = res.body.answer.val \o disclaimerText

\* C4 as stated: for a non-empty used list the call resolves with the
\* engine's answer unchanged and tablesUsed as reported exactly when every
\* member is authorized (stated for the responses that carry an answer string).
C4_AsStated ==
  (answered /\ res.body.answer.def /\ usedNonEmpty)
    => (allAuthorized <=> resolvedWith(res.body.answer.val))

\* C4 (amended): for a non-empty used list the call resolves without suffix
\* and with tablesUsed as reported exactly when every member (after prefix
\* stripping) is authorized; the message is then the engine's answer
\* unchanged, or "No response generated" when the answer is absent or empty.
C4_AllowIffSubset ==
  (answered /\ usedNonEmpty)
    => (allAuthorized <=> resolvedWith(answerOrPlaceholder))

C4_Witness ==
  /\ answered /\ allAuthorized
  /\ Len(used.items) = 2
  /\ \E i \in 1..Len(used.items) : Len(used.items[i]) > 1
  /\ TruthyText(res.body.answer)
  /\ effectiveRole = "physician"
  /\ resolvedWith(res.body.answer.val)

\* C5 as stated: a DENY outcome reaches the caller of POST /api/chat as
\* HTTP 403 with an error that starts with "Access Denied:".
C5_DenyIs403 ==
  (entry = "route" /\ pc = "done" /\ denied)
    => (http.status = 403 /\ startsWith(http.error, << "Access Denied:" >>))

\* C6: pass-through on a genuine no-answer. For every role, a 2xx response
\* with an empty used list and an answer matching a "no answer" pattern
\* resolves with the one fixed friendly text and an empty tablesUsed.
C6_NoAnswerPassThrough ==
  (answered /\ used = JsArray(<<>>) /\ isNoAnswerResponse(res.body.answer))
    => /\ promise = "resolved"
       /\ outcome.value.message = patientFriendlyMessage
       /\ outcome.value.tablesUsed = JsArray(<<>>)

C6_Witness ==
  /\ answered /\ used = JsArray(<<>>) /\ isNoAnswerResponse(res.body.answer)
  /\ effectiveRole = "patient"
  /\ promise = "resolved"
  /\ outcome.value.message # res.body.answer.val

\* res with every used identifier replaced by its unprefixed name
unprefixedRes ==
  [res EXCEPT !.body.tables_used =
     JsArray([i \in 1..Len(used.items) |-> Name(unprefixed(used.items[i]))])]

sameDecision(o1, o2) ==
  o1.settle = o2.settle /\ o1.value.message = o2.value.message /\ o1.error = o2.error

\* C7: prefix-insensitive, case-sensitive comparison. A response naming
\* identifiers with namespace prefixes is decided as the response naming the
\* unprefixed names is; and an identifier counts as an allowed resource only
\* when its unprefixed name is exactly (letter case included) an allowed name:
\* any other member makes the message carry the advisory.
C7_PrefixInsensitive ==
  (answered /\ used.t = "array")
    => /\ sameDecision(outcome, onEnd(unprefixedRes, allowedViews))
       /\ someUnauthorized => outcome.value.message = answerOrPlaceholder \o disclaimerText

C7_Witness ==
  /\ answered
  /\ used = JsArray(<< <<"jl_verboomen", "master_safety_risk">> >>)
  /\ TruthyText(res.body.answer)
  /\ effectiveRole = "physician"
  /\ resolvedWith(res.body.answer.val)

\* a call was made (the promise exists)
called == promise # "none"

\* C8 as stated: a role with no entry in the policy table gets the views of
\* the most restrictive role, patient.
C8_SafeFallback ==
  (called /\ effectiveRole \notin DOMAIN ROLE_VIEW_PERMISSIONS)
    => allowedViews = viewList(ROLE_VIEW_PERMISSIONS.patient)

\* C9 as stated: a POST /api/chat request without a role is served as patient.
C9_DefaultPatient ==
  (entry = "route" /\ called /\ ~Truthy(body.userRole))
    => /\ effectiveRole = "patient"
       /\ allowedViews = viewList(ROLE_VIEW_PERMISSIONS.patient)

\* C10 as stated: the role named in the request body is the role enforced.
C10_SentRoleEnforced ==
  (entry = "route" /\ called /\ body.userRole.def
     /\ body.userRole.val \in DOMAIN ROLE_VIEW_PERMISSIONS)
    => /\ effectiveRole = body.userRole.val
       /\ allowedViews = viewList(ROLE_VIEW_PERMISSIONS[body.userRole.val])

\* a handler of the call that can still settle it
callStep == ResponseEnd \/ RequestError

\* C11 as stated: a dispatched call is never left pending forever: while
\* the promise is pending, a step that settles it (a response, an error or a
\* timeout) is still to come.
C11_NeverLeftPending == (promise = "pending") => ENABLED callStep

\* the request failed before any response ended: its first event was 'error'
connectionFailed == request = "open" /\ events > 0 /\ ~endRan

\* the response that ended has a status outside 200..299
nonSuccessStatus == endRan /\ (res.statusCode < 200 \/ res.statusCode > 299)

\* the response that ended has a 2xx status and a body that is not JSON
notJson == endRan /\ res.statusCode \in 200..299 /\ res.body.kind = "malformed"

\* what the route answers for an error that is not an access denial
internalError == HttpResponse(500, << "Failed to process chat request" >>, NoResponse)

\* C12: a call that fails with a connection error, a status outside 2xx or
\* a body that is not JSON is rejected with an error and resolved with
\* nothing, whatever the body of the failed response holds, and POST
\* /api/chat answers it with HTTP 500.
C12_FailureIsError ==
  (connectionFailed \/ nonSuccessStatus \/ notJson) =>
    /\ promise = "rejected"
    /\ outcome.settle = "reject"
    /\ outcome.value = NoResponse
    /\ connectionFailed => outcome.error.message = requestFailedMessage
    /\ nonSuccessStatus => /\ outcome.error.statusCode = res.statusCode
                           /\ outcome.error.message # requestFailedMessage
    /\ notJson => outcome.error.message = parseFailedMessage
    /\ (entry = "route" /\ pc = "done") => http = internalError

\* a 404 whose body is a JSON object naming an allowed view only was
\* answered with HTTP 500
C12_Witness ==
  /\ nonSuccessStatus
  /\ res.body.kind = "object"
  /\ allAuthorized
  /\ entry = "route" /\ pc = "done"
  /\ http.status = 500

\* the endpoint, the user name or the password is missing from process.env
notConfigured == env.url = "unset" \/ ~env.username \/ ~env.password

\* no request was made to the engine and no promise exists
noEngineCall == request = "none" /\ promise = "none" /\ settlements = 0 /\ ~endRan

\* C13 as stated: with the endpoint or the credentials missing, every POST
\* /api/chat is answered with HTTP 503 and no engine call is issued.
C13_AsStated ==
  (entry = "route" /\ notConfigured) =>
    (pc = "done" /\ http.status = 503 /\ noEngineCall)

\* C13 amended: with the endpoint or the credentials missing, a POST
\* /api/chat whose body passes the schema is answered with HTTP 503, one
\* whose body fails the schema with HTTP 400, and for neither is an engine
\* call issued.
C13_NotConfigured ==
  (entry = "route" /\ notConfigured) =>
    /\ pc = "done"
    /\ http.status = (IF schemaAccepts(body) THEN 503 ELSE 400)
    /\ http.response = NoResponse
    /\ noEngineCall

\* the credentials are set, the endpoint is not, and a valid request with a
\* user message was answered 503
C13_Witness ==
  /\ entry = "route" /\ pc = "done"
  /\ env.url = "unset" /\ env.username /\ env.password
  /\ schemaAccepts(body) /\ hasUserMessage(body.messages)
  /\ http.status = 503
  /\ noEngineCall

\* DENY, ERROR or ANSWER: the terminal outcome an outcome of the handlers is
outcomeClass(o) ==
  IF o.settle = "resolve" THEN "ANSWER"
  ELSE IF o.error.message = failClosedMessage THEN "DENY"
  ELSE "ERROR"

\* bodies the engine could have sent instead: no JSON, null, and objects
\* with each answer text, with and without a used list and a query
AlternativeBodies ==
  {MalformedBody, NullBody} \cup ErrorBodies
    \cup { Body("object", a, JsArray(<<>>), q) : a \in Answers, q \in SqlQueries }

\* the outcome of the 'end' handler had the engine sent body b with the
\* status it sent
alternativeOutcome(b) ==
  onEnd([statusCode |-> res.statusCode, body |-> b], allowedViews)

\* C14: on DENY or ERROR the caller of POST /api/chat receives an error and
\* nothing of the engine's output: had the engine sent any other answer
\* text or body that ends in the same outcome (DENY, or ERROR), the HTTP
\* response would be the same, and it carries no ChatResponse.
C14_ErrorOnly ==
  (entry = "route" /\ pc = "done" /\ endRan /\ promise = "rejected") =>
    /\ http.response = NoResponse
    /\ \A b \in AlternativeBodies :
         LET other == alternativeOutcome(b)
         IN  outcomeClass(other) = outcomeClass(outcome) => respond(other) = http

\* a denied answer was answered by the route, and another answer text
\* would have been denied too
C14_Witness ==
  /\ entry = "route" /\ pc = "done"
  /\ denied
  /\ res.body.answer.val = <<"V","3"," ","i","s">>
  /\ http.status = 500
  /\ \E b \in AlternativeBodies :
       /\ b.answer # res.body.answer
       /\ outcomeClass(alternativeOutcome(b)) = "DENY"

logged(at) == \E i \in 1..Len(log) : log[i].at = at

\* the console holds the role of the call, the number of its allowed views,
\* the tables_used value of the response
roleLogged ==
  \E i \in 1..Len(log) : log[i].at = "routes.ts:211" /\ log[i].role = effectiveRole
countLogged ==
  \E i \in 1..Len(log) : log[i].at = "routes.ts:212" /\ log[i].count = Len(allowedViews)
usedLogged ==
  \E i \in 1..Len(log) :
    /\ log[i].at = "bedrock.ts:235"
    /\ log[i].value = tablesUsedOrNotSpecified(res.body.tables_used)

\* the console holds the line of the decision the call ended with
decisionLogged ==
  CASE outcome.branch = "allow" ->
         \E i \in 1..Len(log) : log[i].at = "bedrock.ts:329" /\ log[i].views = used.items
    [] outcome.branch = "disclaim" -> logged("bedrock.ts:307")
    [] outcome.branch = "noAnswer" -> logged("bedrock.ts:278")
    [] outcome.branch = "deny" -> logged("bedrock.ts:265")
    [] outcome.branch = "parseError" -> logged("bedrock.ts:349") /\ logged("routes.ts:231")
    [] outcome.branch = "status" -> logged("bedrock.ts:355") /\ logged("routes.ts:231")
    [] outcome.branch = "requestError" -> logged("bedrock.ts:364") /\ logged("routes.ts:231")
    [] outcome.branch = "thrown" -> logged("bedrock.ts:372") /\ logged("routes.ts:231")
    [] OTHER -> FALSE

\* POST /api/chat has answered a call that reached a terminal outcome
answeredCall ==
  entry = "route" /\ pc = "done" /\ promise \in {"resolved", "rejected"}

unauthorizedUsed ==
  { used.items[i] : i \in { j \in 1..Len(used.items) :
                              unprefixed(used.items[j]) \notin allowedResources } }

\* C17: on a DISCLAIM outcome the console holds a warning whose views are
\* exactly the used views the engine reported whose unprefixed name is not
\* in the role's allowed set.
C17_UnauthorizedLogged ==
  (answered /\ someUnauthorized) =>
    \E i \in 1..Len(log) :
      /\ log[i].at = "bedrock.ts:307"
      /\ { log[i].views[j] : j \in 1..Len(log[i].views) } = unauthorizedUsed

\* a patient call used an allowed view and master_safety_risk, and the
\* warning names master_safety_risk only
C17_Witness ==
  /\ effectiveRole = "patient"
  /\ answered
  /\ Len(used.items) = 2
  /\ \E i \in 1..2 : unprefixed(used.items[i]) \in allowedResources
  /\ \E i \in 1..Len(log) :
       /\ log[i].at = "bedrock.ts:307"
       /\ log[i].views = << Name("master_safety_risk") >>

\* C18: a client that disconnects while the call is in flight does not
\* bypass validation or auditing. The call is left to finish: an 'end' that
\* arrives afterwards is read, goes once through the same validator, settles
\* the promise once with the validator's outcome and leaves the validator's
\* log lines, so a response that must be denied is denied and its denial is
\* logged.
C18_CancelStillValidated ==
  ~connected =>
    /\ settlements <= 1
    /\ validated <= 1
    /\ (lastEvent = "end" /\ events = 1) => endRan
    /\ endRan =>
         /\ outcome = onEnd(res, allowedViews)
         /\ LET lines == endLog(res, allowedViews)
            IN  \E n \in 0..Len(log) :
                  SubSeq(log, n + 1, Min(Len(log), n + Len(lines))) = lines
    /\ (answered /\ used = JsArray(<<>>) /\ ~isNoAnswerResponse(res.body.answer)) =>
         (denied /\ logged("bedrock.ts:265"))

\* the client left while the promise was pending, and the response that
\* arrived afterwards was denied and the denial logged
C18_Witness ==
  /\ ~connected
  /\ pc = "done"
  /\ denied
  /\ logged("bedrock.ts:265")
  /\ http.status = 500

\* a terminal outcome is never followed by another request to the engine
noRetry == (promise \in {"resolved", "rejected"}) => issued' = issued

stringsOf(toks) == [i \in 1..((Len(toks) - 1) \div 2) |-> toks[2 * i].id]
isEncodedList(v) ==
  v.t = "text" /\ Len(v.toks) >= 2 /\ v.toks = stringify(stringsOf(v.toks))
otherEncoding(v) ==
  IF v.t = "array" THEN JsText(stringify(v.items)) ELSE JsArray(stringsOf(v.toks))
reencodedRes == [res EXCEPT !.body.tables_used = otherEncoding(res.body.tables_used)]

\* C20: a 2xx response that carries a list of view names as a JSON-encoded
\* string and the response that carries the same list as a native array
\* settle the call the same way, with the same message and tablesUsed, for
\* every role.
C20_EncodingsAgree ==
  (answered /\ (res.body.tables_used.t = "array" \/ isEncodedList(res.body.tables_used))) =>
    LET other == onEnd(reencodedRes, allowedViews)
    IN  /\ other.settle = outcome.settle
        /\ other.value.message = outcome.value.message
        /\ other.value.tablesUsed = outcome.value.tablesUsed
        /\ other = outcome

\* a patient call whose used list came as the JSON text of two prefixed
\* names was resolved with the list as an array
C20_Witness ==
  /\ effectiveRole = "patient"
  /\ answered
  /\ isEncodedList(res.body.tables_used)
  /\ promise = "resolved"
  /\ outcome.value.tablesUsed =
       JsArray(<< <<"jl_verboomen", "interactions">>,
                  <<"jl_verboomen", "master_safety_risk">> >>)

\* the request, had the caller's role been userRole and nothing else
\* different
requestAs(userRole) ==
  requestFor(env, userRole,
             IF entry = "route" THEN safeParse(body).messages ELSE << "user" >>)

\* C21: the tables parameter is the only per-role signal sent to the
\* engine. The request made for the call carries the tables hint of its
\* role, and the request the same call would make for any other role has
\* the same Basic credentials, the same question and the same other
\* parameters: it differs at most in the tables parameter.
C21_OnlyTablesPerRole ==
  (issued = 1) =>
    /\ sent = requestAs(effectiveRole)
    /\ sent.params.tables.t = "text"
    /\ JSONParse(sent.params.tables.toks).v = JsArray(allowedViews)
    /\ \A userRole \in RoleStrings :
         LET other == requestAs(userRole)
         IN  /\ other.Authorization = sent.Authorization
             /\ other.params.question = sent.params.question
             /\ [other EXCEPT !.params.tables = sent.params.tables] = sent

\* a patient call was made, and a judge's request differs from it in tables
C21_Witness ==
  /\ issued = 1
  /\ effectiveRole = "patient"
  /\ sent.Authorization.base64 = << "DENODO_USERNAME", ":", "DENODO_PASSWORD" >>
  /\ requestAs("judge").params.tables # sent.params.tables
  /\ requestAs("judge").Authorization = sent.Authorization

\* the outcome call i gets running alone: the validator's outcome for the
\* response it was sent and the views of its own role, or the transport
\* rejection
outcomeAlone(c) ==
  IF c.first = "end"
    THEN onEnd(c.delivered, viewList(getAllowedViewsForRole(c.role)))
    ELSE onError

\* C22: requests are independent. With several calls in flight and their
\* events in any order, every call that was sent an event is settled with
\* the outcome it would get running alone, which depends on its own role
\* and its own first event only; a call that was sent nothing is pending
\* with its settled flag unset, whatever the other calls did; and the
\* role-to-views table keeps the value it was created with.
C22_Independent ==
  /\ policy = ROLE_VIEW_PERMISSIONS
  /\ \A i \in 1..NumCalls :
       /\ calls[i].first # "none" =>
            /\ calls[i].settled
            /\ calls[i].outcome = outcomeAlone(calls[i])
            /\ calls[i].promise =
                 (IF outcomeAlone(calls[i]).settle = "resolve" THEN "resolved" ELSE "rejected")
       /\ calls[i].first = "none" =>
            /\ ~calls[i].settled
            /\ calls[i].promise \in {"none", "pending"}
            /\ calls[i].outcome = NoOutcome

\* a patient and a judge call were sent the same response naming
\* master_safety_risk: the first has the advisory, the second has not
C22_Witness ==
  /\ calls[1].role = "patient" /\ calls[2].role = "judge"
  /\ calls[1].first = "end" /\ calls[2].first = "end"
  /\ calls[1].delivered = calls[2].delivered
  /\ calls[1].outcome.branch = "disclaim"
  /\ calls[2].outcome.branch = "allow"

\* what the local files alone give the call recorded in `loaded`
localResult ==
  IF loaded.fn = "loadDrugIndex" THEN loadDrugIndexFromLocal(files)
  ELSE loadLabelFromLocal(files, loaded.labelId)

\* C23: automatic fallback. When a Denodo client is configured and the
\* Denodo query made by loadDrugIndex or loadLabel fails, the function
\* gives what the local files give: the local data when the local read
\* succeeds, and a failure only when the local read fails too.
C23_Fallback ==
  (loaded.fn # "none" /\ denodoClient /\ loaded.queried /\ ~loaded.denodo.ok) =>
     /\ loaded.result = localResult
     /\ localResult.ok => (loaded.result.ok /\ loaded.result.data.source = "local")
     /\ ~loaded.result.ok => ~localResult.ok

\* the Denodo query for a label failed with a non-ok status and the label
\* came from the local files
C23_Witness ==
  /\ denodoClient /\ loaded.fn = "loadLabel" /\ loaded.queried
  /\ loaded.denodo = Thrown("Denodo API error")
  /\ loaded.result = Loaded(Data("local", <<>>, "drug-002"))

\* res with an answer on the other side of the "no answer" patterns and
\* nothing else different
flippedAnswer ==
  IF isNoAnswerResponse(res.body.answer)
    THEN Txt(<<"V","3"," ","i","s">>)
    ELSE Txt(<<"S","o","r","r","y",".">>)
flippedRes == [res EXCEPT !.body.answer = flippedAnswer]

\* the message of an ALLOW or DISCLAIM outcome for an answer
passedOn(branch, answer) ==
  IF branch = "disclaim" THEN answerOrDefault(answer) \o disclaimerText
  ELSE answerOrDefault(answer)

\* C24: the "no answer" pattern matters only when the used list is empty.
\* For every role, a response whose used list is a non-empty list is
\* resolved as ALLOW or DISCLAIM by the subset test alone; the same
\* response with an answer on the other side of the "no answer" patterns
\* gets the same outcome, and in both the message is the engine's answer,
\* never the friendly no-answer text.
C24_PatternOnlyWhenEmpty ==
  (answered /\ used.t = "array" /\ Len(used.items) > 0) =>
    LET other == onEnd(flippedRes, allowedViews)
        branch == IF Len(unauthorizedViews(used.items, allowedViews)) > 0
                    THEN "disclaim" ELSE "allow"
    IN  /\ promise = "resolved"
        /\ outcome.branch = branch
        /\ other.branch = branch
        /\ isNoAnswerResponse(flippedAnswer) # isNoAnswerResponse(res.body.answer)
        /\ outcome.value.message = passedOn(branch, res.body.answer)
        /\ other.value.message = passedOn(branch, flippedAnswer)
        /\ outcome.value.message # patientFriendlyMessage
        /\ [other EXCEPT !.value.message = outcome.value.message] = outcome

\* a patient call whose answer says "Sorry." and whose used list names an
\* allowed view was resolved with that answer
C24_Witness ==
  /\ effectiveRole = "patient"
  /\ answered
  /\ used = JsArray(<< Name("interactions") >>)
  /\ isNoAnswerResponse(res.body.answer)
  /\ outcome.branch = "allow"
  /\ outcome.value.message = <<"S","o","r","r","y",".">>

\* tables_used of res is a string that is not valid JSON
unparseable ==
  /\ res.body.tables_used.t = "text"
  /\ ~JSONParse(res.body.tables_used.toks).ok

\* C25: unparseable provenance is missing provenance. When tables_used is
\* a string that is not valid JSON, the used list is empty and the call
\* follows the empty-list rules: it is denied with the fail-closed message
\* unless the answer is a recognized "no answer", which is resolved with
\* the friendly text and an empty list; the engine's answer is never
\* passed through.
C25_UnparseableIsEmpty ==
  (answered /\ unparseable) =>
    /\ used = JsArray(<<>>)
    /\ outcome.branch \in {"deny", "noAnswer"}
    /\ ~isNoAnswerResponse(res.body.answer) => denied
    /\ isNoAnswerResponse(res.body.answer) =>
         /\ resolvedWith(patientFriendlyMessage)
         /\ outcome.value.tablesUsed = JsArray(<<>>)
    /\ (promise = "resolved" /\ TruthyText(res.body.answer)) =>
         outcome.value.message # res.body.answer.val

\* a judge call whose tables_used was the unquoted word interactions, with
\* an ordinary answer, was denied
C25_Witness ==
  /\ effectiveRole = "judge"
  /\ answered
  /\ res.body.tables_used = JsText(<< WordTok(Name("interactions")) >>)
  /\ res.body.answer = Txt(<<"V","3"," ","i","s">>)
  /\ denied

\* no message of the request body has role "user"
noUserMessage == \A i \in 1..Len(body.messages) : body.messages[i] # "user"

\* C26: with the gateway configured, a POST /api/chat request whose
\* messages hold no message with role "user", the empty list included, is
\* answered with HTTP 400, and no call of chatWithDenodoAI and no request to
\* the engine is made for it.
C26_NoUserMessage ==
  (entry = "route" /\ isDenodoAIConfigured(env) /\ noUserMessage) =>
    /\ pc = "done"
    /\ http.status = 400
    /\ http.response = NoResponse
    /\ promise = "none" /\ request = "none"
    /\ issued = 0 /\ sent = NoRequest
    /\ log = <<>>

\* a request with an assistant message only, and one with no message, each
\* answered 400 "No user message found"
C26_Witness ==
  /\ entry = "route" /\ isDenodoAIConfigured(env)
  /\ body.messages \in {<<>>, <<"assistant">>}
  /\ http = HttpResponse(400, << "No user message found" >>, NoResponse)
  /\ issued = 0

\* C27: validation is never skipped on the chat route. Whatever userRole
\* the request carries (a named role, an unknown one, none), the views
\* handed to chatWithDenodoAI are a non-empty list, and an HTTP 200 answer
\* is the outcome of the RBAC block for the response read: the used list
\* was empty only for a "no answer", and an answer passed on unchanged had
\* a non-empty used list with every view allowed.
C27_RouteValidates ==
  /\ \A u \in SentRoles : Len(getAllowedViewsForRole(effectiveRoleOf(u))) > 0
  /\ (entry = "route" /\ promise # "none") =>
       /\ Len(allowedViews) > 0
       /\ allowedViews = viewList(getAllowedViewsForRole(effectiveRole))
  /\ (entry = "route" /\ http.status = 200) =>
       /\ answered
       /\ outcome = rbacBlock(res.body, used, allowedViews)
       /\ outcome.branch \in {"allow", "disclaim", "noAnswer"}
       /\ outcome.branch = "noAnswer" <=> lengthOf(used) = 0
       /\ lengthOf(used) = 0 => isNoAnswerResponse(res.body.answer)
       /\ outcome.branch = "allow" =>
            (used.t = "array" /\ unauthorizedViews(used.items, allowedViews) = <<>>)

\* a request sent with userRole "patient" was answered 200 with an answer
\* whose used list has one allowed view
C27_Witness ==
  /\ entry = "route" /\ body.userRole = Str("patient")
  /\ http.status = 200
  /\ outcome.branch = "allow"
  /\ used = JsArray(<< Name("interactions") >>)

\* the outcome of the same response for a call made with another role
outcomeAs(userRole) == onEnd(res, viewList(getAllowedViewsForRole(userRole)))

\* C28: the SQL is passed on unchanged. On every resolved path (the
\* normal ALLOW, the "no answer" ALLOW and DISCLAIM) sqlQuery is the
\* sql_query of the engine response, absent when the engine sent none; the
\* same response resolved for any other role carries the same sqlQuery.
C28_SqlUnchanged ==
  (promise = "resolved") =>
    /\ answered
    /\ outcome.branch \in {"allow", "noAnswer", "disclaim"}
    /\ outcome.value.sqlQuery = res.body.sql_query
    /\ \A userRole \in RoleStrings :
         LET other == outcomeAs(userRole)
         IN  other.settle = "resolve" => other.value.sqlQuery = outcome.value.sqlQuery

\* a patient call resolved with the advisory carries the SQL of the
\* engine, as the judge's plain answer to the same response does
C28_Witness ==
  /\ effectiveRole = "patient"
  /\ promise = "resolved"
  /\ outcome.branch = "disclaim"
  /\ outcomeAs("judge").branch = "allow"
  /\ res.body.sql_query = Str("SELECT 1")
  /\ outcome.value.sqlQuery = Str("SELECT 1")

\* C29 as stated: the SQL of an assistant message is displayed only when
\* the current role is judge and the correct password was submitted for
\* that very message after it was received, whatever sends, unlocks,
\* Clear History, logouts and logins came before.
C29_SqlBehindPassword ==
  \A idx \in Indexes :
    sqlDisplayed(idx) =>
      /\ selectedRole = "judge"
      /\ messageAt(idx).role = "assistant"
      /\ messageAt(idx).id \in submittedFor

\* the n most recently added entries of a history, newest first
newestFirst(history, n) ==
  [i \in 1..(IF n < Len(history) THEN n ELSE Len(history)) |-> history[Len(history) + 1 - i]]

\* C30 as stated: for every limit >= 0 and any history, getQueryHistory
\* returns at most limit entries, which are the most recently added ones,
\* newest first, and leaves the stored history as it was.
C30_MostRecentFirst ==
  returned.called =>
    /\ Len(returned.entries) <= returned.limit
    /\ returned.entries = newestFirst(returned.before, returned.limit)
    /\ returned.after = returned.before

====
